---- MODULE Spec2Model ----
(***************************************************************************)
(* A model of the rust-runes rule engine: the typed fact values, the       *)
(* expression evaluator and action executor (src/engine.rs), the knowledge *)
(* base that stores and priority-orders rules (src/knowledge_base.rs) and  *)
(* the single-pass execute loop of RuleEngine.                             *)
(*                                                                         *)
(* Representation.  Rust enums are tuples whose first element is the       *)
(* variant name:                                                           *)
(*   FactValue   <<"String", s>>  <<"Number", k, n, d>>  <<"Boolean", b>>  *)
(*               <<"Object", map>>  <<"Array", seq>>  <<"Null">>           *)
(*   Expression  <<"String", s>>  <<"Number", k, n, d>>  <<"Boolean", b>>  *)
(*               <<"Variable", name>>  <<"FieldAccess", e, field>>         *)
(*               <<op, l, r>> for the binary operators, <<"Not", e>>       *)
(*               <<"Assignment", name, e>>                                 *)
(*               <<"FieldAssignment", obj, field, e>>                      *)
(*   Result      <<"Ok", v>>  or  <<"Err", variant, message>>              *)
(* An f64 is <<"Number", k, n, d>>: k = "fin" is the finite value n/d in   *)
(* lowest terms with d > 0; k = "nan", "pinf", "ninf" are NaN and the two  *)
(* infinities (n = 0, d = 1).  Negative zero is folded into zero: the      *)
(* evaluator cannot tell them apart (0.0 == -0.0, and a zero divisor is    *)
(* rejected before any division).  Finite arithmetic is exact: the sample  *)
(* magnitudes stay far from the rounding and overflow limits of f64.       *)
(* A HashMap is a function whose DOMAIN is the set of keys.                *)
(***************************************************************************)
EXTENDS Integers, Sequences, FiniteSets, TLC

VARIABLES
    rules,        \* KnowledgeBase.rules: Vec<Rule>
    rule_index,   \* KnowledgeBase.rule_index: HashMap<String, usize> (0-based)
    facts,        \* the caller's HashMap<String, Fact> handed to execute
    pc,           \* position of the execute call: "idle", "guard", "actions"
    sorted,       \* execute's local `rules`: the salience-sorted snapshot
    i,            \* position of the outer loop in sorted (1-based)
    j,            \* position of the inner loop in the firing rule's actions
    rules_fired,  \* result.rules_fired of the call in progress
    ret,          \* the last call: <<method, argument, value returned>>
    moved,        \* history: how many stored names the last knowledge-base
                  \* call gave another index
    facts0,       \* history: the fact mapping when the last execute began
    guards,       \* history: <<rule name, evaluate_condition's result>> of every
                  \* guard evaluated in the last execute, in order
    runs,         \* history: the completed execute calls on this rule set that
                  \* began from the mapping the caller holds now, the last two
    ev_in,        \* evaluator harness: the <<expression, facts>> input
    ev_out,       \* evaluator harness: the result of evaluate_expression
    ac_out,       \* evaluator harness: the <<result, facts>> of execute_action
    ps_in,        \* parser harness: the GRL text handed to parse_rule
    ps_out        \* parser harness: the result of parse_rule

vars == <<rules, rule_index, facts, pc, sorted, i, j, rules_fired, ret, moved,
          facts0, guards, runs, ev_in, ev_out, ac_out, ps_in, ps_out>>

kbVars == <<rules, rule_index>>
evVars == <<ev_in, ev_out, ac_out>>
psVars == <<ps_in, ps_out>>

-----------------------------------------------------------------------------
(* f64 *)

Abs(n) == IF n < 0 THEN -n ELSE n

RECURSIVE Gcd(_, _)
Gcd(a, b) == IF b = 0 THEN a ELSE Gcd(b, a % b)

\* the finite f64 n/d, in lowest terms with a positive denominator
Fin(n, d) ==
    LET g == Gcd(Abs(n), Abs(d))
        s == IF d < 0 THEN -1 ELSE 1
    IN  <<"Number", "fin", (s * n) \div g, (s * d) \div g>>

Num(n) == <<"Number", "fin", n, 1>>
NaN == <<"Number", "nan", 0, 1>>
PInf == <<"Number", "pinf", 0, 1>>
NInf == <<"Number", "ninf", 0, 1>>

\* -1, 0 or 1: the sign of an f64 that is not NaN
Sign(a) ==
    CASE a[2] = "pinf" -> 1
      [] a[2] = "ninf" -> -1
      [] OTHER -> IF a[3] > 0 THEN 1 ELSE IF a[3] < 0 THEN -1 ELSE 0

InfOfSign(s) == IF s > 0 THEN PInf ELSE NInf

f64_neg(a) ==
    CASE a[2] = "nan" -> NaN
      [] a[2] = "pinf" -> NInf
      [] a[2] = "ninf" -> PInf
      [] OTHER -> Fin(-a[3], a[4])

\* a + b
f64_add(a, b) ==
    CASE a[2] = "nan" \/ b[2] = "nan" -> NaN
      [] a[2] = "fin" /\ b[2] = "fin" -> Fin(a[3] * b[4] + b[3] * a[4], a[4] * b[4])
      [] a[2] = "fin" -> b
      [] b[2] = "fin" -> a
      [] OTHER -> IF a[2] = b[2] THEN a ELSE NaN

\* a - b
f64_sub(a, b) == f64_add(a, f64_neg(b))

\* a * b
f64_mul(a, b) ==
    CASE a[2] = "nan" \/ b[2] = "nan" -> NaN
      [] a[2] = "fin" /\ b[2] = "fin" -> Fin(a[3] * b[3], a[4] * b[4])
      [] OTHER -> IF Sign(a) * Sign(b) = 0 THEN NaN ELSE InfOfSign(Sign(a) * Sign(b))

\* a / b, for every b: IEEE 754 gives x/0 = +-inf and 0/0 = NaN
f64_div(a, b) ==
    CASE a[2] = "nan" \/ b[2] = "nan" -> NaN
      [] a[2] # "fin" /\ b[2] # "fin" -> NaN
      [] a[2] # "fin" -> InfOfSign(IF Sign(b) < 0 THEN -Sign(a) ELSE Sign(a))
      [] b[2] # "fin" -> Num(0)
      [] b[3] = 0 -> IF a[3] = 0 THEN NaN ELSE InfOfSign(Sign(a))
      [] OTHER -> Fin(a[3] * b[4], a[4] * b[3])

\* a == b: NaN equals nothing
f64_eq(a, b) == a[2] # "nan" /\ b[2] # "nan" /\ a = b

\* a < b: every comparison with NaN is false
f64_lt(a, b) ==
    CASE a[2] = "nan" \/ b[2] = "nan" -> FALSE
      [] a[2] = "fin" /\ b[2] = "fin" -> a[3] * b[4] < b[3] * a[4]
      [] OTHER -> a # b /\ (a[2] = "ninf" \/ b[2] = "pinf")

f64_le(a, b) == f64_lt(a, b) \/ f64_eq(a, b)

-----------------------------------------------------------------------------
(* facts.rs *)

VNull == <<"Null">>
VString(s) == <<"String", s>>
VBoolean(b) == <<"Boolean", b>>
VObject(m) == <<"Object", m>>
VArray(a) == <<"Array", a>>

EmptyMap == [k \in {} |-> VNull]

\* HashMap::insert
\* an insert that keeps the value a key already has
MapInsertIfAbsent(m, k, v) == [x \in DOMAIN m \cup {k} |-> IF x \in DOMAIN m THEN m[x] ELSE v]

MapInsert(m, k, v) == [x \in DOMAIN m \cup {k} |-> IF x = k THEN v ELSE m[x]]

is_truthy(v) ==
    CASE v[1] = "Boolean" -> v[2]
      [] v[1] = "Number" -> ~f64_eq(v, Num(0))
      [] v[1] = "String" -> v[2] # ""
      [] v[1] = "Array" -> v[2] # <<>>
      [] v[1] = "Object" -> DOMAIN v[2] # {}
      [] OTHER -> FALSE

Fact_new(name, value) == [name |-> name, value |-> value]

\* a set_field that turns whatever the fact holds into an Object
set_field_forced(fact, field_name, value) ==
    <<<<"Ok">>,
      [fact EXCEPT !.value = VObject(MapInsert(IF fact.value[1] = "Object" THEN fact.value[2]
                                               ELSE EmptyMap,
                                               field_name, value))]>>

\* a set_field that names the fact after the field it writes
set_field_renaming(fact, field_name, value) ==
    IF fact.value[1] = "Object"
    THEN <<<<"Ok">>, [name |-> field_name,
                      value |-> VObject(MapInsert(fact.value[2], field_name, value))]>>
    ELSE <<<<"Err", "Cannot set field on non-object fact">>, fact>>

\* Fact::set_field: <<result, the fact afterwards>>
set_field(fact, field_name, value) ==
    IF fact.value[1] = "Object"
    THEN <<<<"Ok">>, [fact EXCEPT !.value = VObject(MapInsert(fact.value[2], field_name, value))]>>
    ELSE <<<<"Err", "Cannot set field on non-object fact">>, fact>>

-----------------------------------------------------------------------------
(* engine.rs: the evaluator *)

Ok(v) == <<"Ok", v>>
Err(variant, msg) == <<"Err", variant, msg>>
IsOk(r) == r[1] = "Ok"
IsErr(r) == r[1] = "Err"

\* equality of the values as such, whatever their variant
values_identical(left, right) == left = right

values_equal(left, right) ==
    CASE left[1] = "String" /\ right[1] = "String" -> left[2] = right[2]
      [] left[1] = "Number" /\ right[1] = "Number" -> f64_eq(left, right)
      [] left[1] = "Boolean" /\ right[1] = "Boolean" -> left[2] = right[2]
      [] left[1] = "Null" /\ right[1] = "Null" -> TRUE
      [] OTHER -> FALSE

BothNumbers(a, b) == a[1] = "Number" /\ b[1] = "Number"

\* Add that joins two strings the wrong way round
AddArmSwapped(a, b) ==
    CASE BothNumbers(a, b) -> Ok(f64_add(a, b))
      [] a[1] = "String" /\ b[1] = "String" -> Ok(VString(b[2] \o a[2]))
      [] OTHER -> Err("TypeError", "Cannot add these types")

\* the match on (left_val, right_val) of each binary arm
AddArm(a, b) ==
    CASE BothNumbers(a, b) -> Ok(f64_add(a, b))
      [] a[1] = "String" /\ b[1] = "String" -> Ok(VString(a[2] \o b[2]))
      [] OTHER -> Err("TypeError", "Cannot add these types")

SubtractArm(a, b) ==
    IF BothNumbers(a, b) THEN Ok(f64_sub(a, b))
    ELSE Err("TypeError", "Cannot subtract these types")

MultiplyArm(a, b) ==
    IF BothNumbers(a, b) THEN Ok(f64_mul(a, b))
    ELSE Err("TypeError", "Cannot multiply these types")

\* Divide without the test of the divisor
DivideArmUnchecked(a, b) ==
    IF BothNumbers(a, b) THEN Ok(f64_div(a, b))
    ELSE Err("TypeError", "Cannot divide these types")

DivideArm(a, b) ==
    IF BothNumbers(a, b)
    THEN IF f64_eq(b, Num(0)) THEN Err("DivisionByZero", "") ELSE Ok(f64_div(a, b))
    ELSE Err("TypeError", "Cannot divide these types")

EqualArm(a, b) == Ok(VBoolean(values_equal(a, b)))
NotEqualArm(a, b) == Ok(VBoolean(~values_equal(a, b)))

LessThanArm(a, b) ==
    IF BothNumbers(a, b) THEN Ok(VBoolean(f64_lt(a, b)))
    ELSE Err("TypeError", "Cannot compare these types")

LessEqualArm(a, b) ==
    IF BothNumbers(a, b) THEN Ok(VBoolean(f64_le(a, b)))
    ELSE Err("TypeError", "Cannot compare these types")

GreaterThanArm(a, b) ==
    IF BothNumbers(a, b) THEN Ok(VBoolean(f64_lt(b, a)))
    ELSE Err("TypeError", "Cannot compare these types")

GreaterEqualArm(a, b) ==
    IF BothNumbers(a, b) THEN Ok(VBoolean(f64_le(b, a)))
    ELSE Err("TypeError", "Cannot compare these types")

AndArm(a, b) == Ok(VBoolean(is_truthy(a) /\ is_truthy(b)))
OrArm(a, b) == Ok(VBoolean(is_truthy(a) \/ is_truthy(b)))

BinaryOps == {"Add", "Subtract", "Multiply", "Divide", "Equal", "NotEqual",
              "LessThan", "LessEqual", "GreaterThan", "GreaterEqual", "And", "Or"}

BinaryArm(op, a, b) ==
    CASE op = "Add" -> AddArm(a, b)
      [] op = "Subtract" -> SubtractArm(a, b)
      [] op = "Multiply" -> MultiplyArm(a, b)
      [] op = "Divide" -> DivideArm(a, b)
      [] op = "Equal" -> EqualArm(a, b)
      [] op = "NotEqual" -> NotEqualArm(a, b)
      [] op = "LessThan" -> LessThanArm(a, b)
      [] op = "LessEqual" -> LessEqualArm(a, b)
      [] op = "GreaterThan" -> GreaterThanArm(a, b)
      [] op = "GreaterEqual" -> GreaterEqualArm(a, b)
      [] op = "And" -> AndArm(a, b)
      [] op = "Or" -> OrArm(a, b)

\* a FieldAccess arm that reads a missing field as Null
FieldAccessArmNull(v, field) ==
    IF v[1] = "Object"
    THEN IF field \in DOMAIN v[2] THEN Ok(v[2][field]) ELSE Ok(VNull)
    ELSE Err("TypeError", "Cannot access field on non-object")

\* the FieldAccess arm, given the value of the object expression
FieldAccessArm(v, field) ==
    IF v[1] = "Object"
    THEN IF field \in DOMAIN v[2] THEN Ok(v[2][field])
         ELSE Err("EvaluationError", "Field '" \o field \o "' not found")
    ELSE Err("TypeError", "Cannot access field on non-object")

\* an evaluator whose And and Or stop at a left operand that decides
RECURSIVE evaluate_short_circuit(_, _)
evaluate_short_circuit(expr, fs) ==
    CASE expr[1] \in {"String", "Number", "Boolean"} -> Ok(expr)
      [] expr[1] = "Variable" ->
            IF expr[2] \in DOMAIN fs THEN Ok(fs[expr[2]].value)
            ELSE Err("UnknownVariable", expr[2])
      [] expr[1] = "FieldAccess" ->
            LET o == evaluate_short_circuit(expr[2], fs)
            IN  IF IsErr(o) THEN o ELSE FieldAccessArm(o[2], expr[3])
      [] expr[1] \in BinaryOps ->
            LET left_val == evaluate_short_circuit(expr[2], fs)
            IN  IF IsErr(left_val) THEN left_val
                ELSE IF expr[1] = "And" /\ ~is_truthy(left_val[2]) THEN Ok(VBoolean(FALSE))
                ELSE IF expr[1] = "Or" /\ is_truthy(left_val[2]) THEN Ok(VBoolean(TRUE))
                ELSE LET right_val == evaluate_short_circuit(expr[3], fs)
                     IN  IF IsErr(right_val) THEN right_val
                         ELSE BinaryArm(expr[1], left_val[2], right_val[2])
      [] expr[1] = "Not" ->
            LET val == evaluate_short_circuit(expr[2], fs)
            IN  IF IsErr(val) THEN val ELSE Ok(VBoolean(~is_truthy(val[2])))
      [] OTHER -> Err("EvaluationError", "Unsupported expression type")

RECURSIVE evaluate_expression(_, _)
evaluate_expression(expr, fs) ==
    CASE expr[1] \in {"String", "Number", "Boolean"} -> Ok(expr)
      [] expr[1] = "Variable" ->
            IF expr[2] \in DOMAIN fs THEN Ok(fs[expr[2]].value)
            ELSE Err("UnknownVariable", expr[2])
      [] expr[1] = "FieldAccess" ->
            LET o == evaluate_expression(expr[2], fs)
            IN  IF IsErr(o) THEN o ELSE FieldAccessArm(o[2], expr[3])
      [] expr[1] \in BinaryOps ->
            LET left_val == evaluate_expression(expr[2], fs)
            IN  IF IsErr(left_val) THEN left_val
                ELSE LET right_val == evaluate_expression(expr[3], fs)
                     IN  IF IsErr(right_val) THEN right_val
                         ELSE BinaryArm(expr[1], left_val[2], right_val[2])
      [] expr[1] = "Not" ->
            LET val == evaluate_expression(expr[2], fs)
            IN  IF IsErr(val) THEN val ELSE Ok(VBoolean(~is_truthy(val[2])))
      [] OTHER -> Err("EvaluationError", "Unsupported expression type")

evaluate_condition(expr, fs) ==
    LET value == evaluate_expression(expr, fs)
    IN  IF IsErr(value) THEN value ELSE Ok(is_truthy(value[2]))

\* an execute_action that passes over what is no action
execute_action_lenient(action, fs) ==
    CASE action[1] = "Assignment" ->
            LET value == evaluate_expression(action[3], fs)
            IN  IF IsErr(value) THEN <<value, fs>>
                ELSE <<Ok(<<>>), MapInsert(fs, action[2], Fact_new(action[2], value[2]))>>
      [] action[1] = "FieldAssignment" ->
            LET value == evaluate_expression(action[4], fs)
            IN  IF IsErr(value) THEN <<value, fs>>
                ELSE IF action[2] \in DOMAIN fs
                     THEN LET r == set_field(fs[action[2]], action[3], value[2])
                          IN  IF IsErr(r[1])
                              THEN <<Err("EvaluationError", r[1][2]), fs>>
                              ELSE <<Ok(<<>>), [fs EXCEPT ![action[2]] = r[2]]>>
                     ELSE <<Err("UnknownVariable", action[2]), fs>>
      [] OTHER -> <<Ok(<<>>), fs>>

\* execute_action: <<result, the fact mapping afterwards>>
execute_action(action, fs) ==
    CASE action[1] = "Assignment" ->
            LET value == evaluate_expression(action[3], fs)
            IN  IF IsErr(value) THEN <<value, fs>>
                ELSE <<Ok(<<>>), MapInsert(fs, action[2], Fact_new(action[2], value[2]))>>
      [] action[1] = "FieldAssignment" ->
            LET value == evaluate_expression(action[4], fs)
            IN  IF IsErr(value) THEN <<value, fs>>
                ELSE IF action[2] \in DOMAIN fs
                     THEN LET r == set_field(fs[action[2]], action[3], value[2])
                          IN  IF IsErr(r[1])
                              THEN <<Err("EvaluationError", r[1][2]), fs>>
                              ELSE <<Ok(<<>>), [fs EXCEPT ![action[2]] = r[2]]>>
                     ELSE <<Err("UnknownVariable", action[2]), fs>>
      [] OTHER -> <<Err("EvaluationError", "Invalid action expression"), fs>>

-----------------------------------------------------------------------------
(* rule.rs *)

None == <<"None">>
Some(v) == <<"Some", v>>

Rule_new(name, salience, when_condition, then_actions) ==
    [name |-> name, description |-> None, salience |-> salience,
     when_condition |-> when_condition, then_actions |-> then_actions]

with_description(rule, description) == [rule EXCEPT !.description = Some(description)]

-----------------------------------------------------------------------------
(* knowledge_base.rs.  A knowledge base is [rules, rule_index]; every      *)
(* mutating method is an operator giving [kb, ret]: the knowledge base     *)
(* afterwards and the value returned.                                      *)

KnowledgeBase_new == [rules |-> <<>>, rule_index |-> [n \in {} |-> 0]]

\* HashMap::remove
MapRemove(m, k) == [x \in DOMAIN m \ {k} |-> m[x]]

\* Vec::get with a 0-based index
Vec_get(v, index) == IF index >= 0 /\ index < Len(v) THEN Some(v[index + 1]) ELSE None

\* the Vec left by Vec::remove with a 0-based index in range
Vec_remove(v, index) ==
    [p \in 1..(Len(v) - 1) |-> IF p <= index THEN v[p] ELSE v[p + 1]]

\* add_rule that stores the new rule over the old one before it reports the duplicate
add_rule_replacing(k, rule) ==
    IF rule.name \in DOMAIN k.rule_index
    THEN [kb |-> [k EXCEPT !.rules[k.rule_index[rule.name] + 1] = rule],
          ret |-> Err("String", "Rule already exists")]
    ELSE [kb |-> [rules |-> Append(k.rules, rule),
                  rule_index |-> MapInsert(k.rule_index, rule.name, Len(k.rules))],
          ret |-> Ok(<<>>)]

add_rule(k, rule) ==
    IF rule.name \in DOMAIN k.rule_index
    THEN [kb |-> k, ret |-> Err("String", "Rule already exists")]
    ELSE [kb |-> [rules |-> Append(k.rules, rule),
                  rule_index |-> MapInsert(k.rule_index, rule.name, Len(k.rules))],
          ret |-> Ok(<<>>)]

get_rule(k, name) ==
    IF name \in DOMAIN k.rule_index THEN Vec_get(k.rules, k.rule_index[name]) ELSE None

get_rules(k) == k.rules

len(k) == Len(k.rules)

\* remove_rule without the loop that updates the indices
ShiftIndicesSkipped(m, index) == m

\* the loop over rule_index.iter_mut(): every index after the removed one moves down
ShiftIndices(m, index) == [n \in DOMAIN m |-> IF m[n] > index THEN m[n] - 1 ELSE m[n]]

\* Vec::remove panics on an index out of range, before anything is changed
remove_rule(k, name) ==
    IF name \in DOMAIN k.rule_index
    THEN LET index == k.rule_index[name]
         IN  IF index >= Len(k.rules)
             THEN [kb |-> k, ret |-> <<"Panic">>]
             ELSE [kb |-> [rules |-> Vec_remove(k.rules, index),
                           rule_index |-> ShiftIndices(MapRemove(k.rule_index, name), index)],
                   ret |-> Some(k.rules[index + 1])]
    ELSE [kb |-> k, ret |-> None]

clear(k) == [kb |-> KnowledgeBase_new, ret |-> <<>>]

\* i32::cmp
i32_cmp(x, y) == IF x < y THEN "Less" ELSE IF x > y THEN "Greater" ELSE "Equal"

\* the closure with its operands the other way round: lower salience first
SalienceCmpAscending(a, b) == i32_cmp(a.salience, b.salience)

\* the closure |a, b| b.salience.cmp(&a.salience)
SalienceCmp(a, b) == i32_cmp(b.salience, a.salience)

\* slice::sort_by is a stable sort: an element goes behind every element that
\* does not compare Greater than it, in the order the elements are met
RECURSIVE SortInsert(_, _)
SortInsert(s, x) ==
    IF s = <<>> THEN <<x>>
    ELSE IF SalienceCmp(s[Len(s)], x) = "Greater"
         THEN Append(SortInsert(SubSeq(s, 1, Len(s) - 1), x), s[Len(s)])
         ELSE Append(s, x)

RECURSIVE sort_by(_)
sort_by(s) ==
    IF s = <<>> THEN <<>>
    ELSE SortInsert(sort_by(SubSeq(s, 1, Len(s) - 1)), s[Len(s)])

\* execute walking the rules in insertion order
unsorted_rules(k) == k.rules

get_rules_sorted_by_salience(k) == sort_by(k.rules)

-----------------------------------------------------------------------------
(* The inputs the model draws from. *)

MaxRules == 3

Var(name) == <<"Variable", name>>
Field(obj, field) == <<"FieldAccess", Var(obj), field>>
Assign(name, e) == <<"Assignment", name, e>>
FieldAssign(obj, field, e) == <<"FieldAssignment", obj, field, e>>

\* x > 5 then y = 10 (the rule of test_rule_engine_basic)
RuleA == Rule_new("a", 10, <<"GreaterThan", Var("x"), Num(5)>>, <<Assign("y", Num(10))>>)
\* a truthy guard that is no Boolean, and no action
RuleA2 == with_description(Rule_new("a", 5, VString("go"), <<>>), "always")
\* enabled by RuleA's action, and disabling RuleA's guard
RuleB == Rule_new("b", 5, <<"Equal", Var("y"), Num(10)>>, <<Assign("x", Num(0))>>)
\* the same guard with the highest salience: false at its turn, true after RuleA
RuleE == Rule_new("e", 20, <<"Equal", Var("y"), Num(10)>>, <<Assign("x", Num(0))>>)
\* the SpeedUp rule: its guard fails with UnknownVariable without a car
RuleC == Rule_new("c", 5,
                  <<"And", <<"Equal", Field("car", "SpeedUp"), VBoolean(TRUE)>>,
                           <<"LessThan", Field("car", "Speed"), Field("car", "MaxSpeed")>>>>,
                  <<FieldAssign("car", "Speed",
                                <<"Add", Field("car", "Speed"), Field("car", "SpeedIncrement")>>),
                    \* reads the speed just written, into a field the car has not yet
                    FieldAssign("car", "Gear", <<"Add", Field("car", "Speed"), Num(1)>>)>>)
\* a falsy guard that is no Boolean
RuleC2 == Rule_new("c", -3, Num(0), <<Assign("y", Num(99))>>)
\* the second action fails after the first has changed y
RuleD == Rule_new("d", 5, VBoolean(TRUE),
                  <<Assign("y", Num(1)), Assign("x", <<"Divide", Var("x"), Num(0)>>)>>)

RuleCatalog == {RuleA, RuleA2, RuleB, RuleC, RuleC2, RuleD, RuleE}

RuleNames == {r.name : r \in RuleCatalog} \cup {"zz"}

\* a fact mapping in which every fact is stored under its own name
FactsOf(m) == [n \in DOMAIN m |-> Fact_new(n, m[n])]

Car == VObject([SpeedUp |-> VBoolean(TRUE), Speed |-> Num(50),
                MaxSpeed |-> Num(60), SpeedIncrement |-> Num(10)])

FactSamples ==
    { FactsOf(EmptyMap),
      FactsOf([x |-> Num(7), y |-> Num(0)]),
      FactsOf([x |-> Num(3), y |-> Num(10)]),
      FactsOf([x |-> Num(7), y |-> Num(0), car |-> Car]) }

-----------------------------------------------------------------------------
(* engine.rs: RuleEngine and one execute call *)

KB == [rules |-> rules, rule_index |-> rule_index]

NoRet == <<"none", <<>>, <<>>>>
NoInput == <<>>

\* a result that still holds the names the call before it fired
ExecutionResultStale ==
    IF runs # <<>> /\ runs[Len(runs)].ret[1] = "Ok" THEN runs[Len(runs)].ret[2] ELSE <<>>

\* ExecutionResult::new().rules_fired
ExecutionResult_new == <<>>

Init ==
    /\ rules = KnowledgeBase_new.rules
    /\ rule_index = KnowledgeBase_new.rule_index
    /\ facts \in FactSamples
    /\ pc = "idle"
    /\ sorted = <<>>
    /\ i = 0
    /\ j = 0
    /\ rules_fired = <<>>
    /\ ret = NoRet
    /\ moved = 0
    /\ facts0 = FactsOf(EmptyMap)
    /\ guards = <<>>
    /\ runs = <<>>
    /\ ev_in = NoInput
    /\ ev_out = NoInput
    /\ ac_out = NoInput
    /\ ps_in = NoInput
    /\ ps_out = NoInput

\* a call on the knowledge base: the history of execute starts afresh
KbCall(op, arg, r) ==
    /\ pc = "idle"
    /\ rules' = r.kb.rules
    /\ rule_index' = r.kb.rule_index
    /\ ret' = <<op, arg, r.ret>>
    /\ moved' = Cardinality({n \in DOMAIN rule_index \cap DOMAIN r.kb.rule_index :
                                rule_index[n] # r.kb.rule_index[n]})
    /\ facts0' = FactsOf(EmptyMap)
    /\ guards' = <<>>
    /\ runs' = <<>>
    /\ UNCHANGED <<facts, sorted, i, j, rules_fired, pc, ev_in, ev_out, ac_out, ps_in, ps_out>>

AddRule == \E rule \in RuleCatalog :
    /\ Len(rules) < MaxRules \/ rule.name \in DOMAIN rule_index
    /\ KbCall("add_rule", rule, add_rule(KB, rule))

RemoveRule == \E name \in RuleNames : KbCall("remove_rule", name, remove_rule(KB, name))

Clear == KbCall("clear", <<>>, clear(KB))

\* the last call recorded, if it began from the mapping fs
Comparable(fs) ==
    IF runs # <<>> /\ runs[Len(runs)].facts0 = fs THEN <<runs[Len(runs)]>> ELSE <<>>

\* the caller hands a fresh fact mapping to the next execute
SetFacts ==
    /\ pc = "idle"
    /\ facts' \in FactSamples
    /\ ret' = NoRet
    /\ facts0' = FactsOf(EmptyMap)
    /\ guards' = <<>>
    /\ runs' = Comparable(facts')
    /\ UNCHANGED <<rules, rule_index, sorted, i, j, rules_fired, pc, moved, ev_in, ev_out, ac_out, ps_in, ps_out>>

\* execute returns r, leaving the caller's mapping as fs
Return(r, fs) ==
    /\ pc' = "idle"
    /\ sorted' = <<>>
    /\ i' = 0
    /\ j' = 0
    /\ rules_fired' = <<>>
    /\ ret' = <<"execute", <<>>, r>>
    /\ runs' = Append(runs, [facts0 |-> facts0, ret |-> r, facts |-> fs])

ExecuteBegin ==
    /\ pc = "idle"
    /\ sorted' = get_rules_sorted_by_salience(KB)
    /\ rules_fired' = ExecutionResult_new
    /\ i' = 1
    /\ j' = 0
    /\ pc' = "guard"
    /\ ret' = NoRet
    /\ facts0' = facts
    /\ guards' = <<>>
    /\ runs' = Comparable(facts)
    /\ UNCHANGED <<rules, rule_index, facts, moved, ev_in, ev_out, ac_out, ps_in, ps_out>>

\* the loop running the actions whatever the guard's value
EvalGuardFiresAnyway ==
    /\ pc = "guard"
    /\ i <= Len(sorted)
    /\ LET c == evaluate_condition(sorted[i].when_condition, facts)
       IN  /\ guards' = Append(guards, <<sorted[i].name, c>>)
           /\ IF IsErr(c) THEN Return(c, facts)
              ELSE /\ pc' = "actions" /\ i' = i /\ j' = 1
                   /\ UNCHANGED <<sorted, rules_fired, ret, runs>>
    /\ UNCHANGED <<rules, rule_index, facts, moved, facts0, ev_in, ev_out, ac_out, ps_in, ps_out>>

\* `if self.evaluate_condition(&rule.when_condition, facts)?`
EvalGuard ==
    /\ pc = "guard"
    /\ i <= Len(sorted)
    /\ LET c == evaluate_condition(sorted[i].when_condition, facts)
       IN  /\ guards' = Append(guards, <<sorted[i].name, c>>)
           /\ IF IsErr(c) THEN Return(c, facts)
              ELSE /\ IF c[2] THEN pc' = "actions" /\ i' = i /\ j' = 1
                              ELSE pc' = "guard" /\ i' = i + 1 /\ j' = 0
                   /\ UNCHANGED <<sorted, rules_fired, ret, runs>>
    /\ UNCHANGED <<rules, rule_index, facts, moved, facts0, ev_in, ev_out, ac_out, ps_in, ps_out>>

\* a failing action that puts the caller's mapping back as the call found it
ExecActionRollback ==
    /\ pc = "actions"
    /\ j <= Len(sorted[i].then_actions)
    /\ LET r == execute_action(sorted[i].then_actions[j], facts)
       IN  IF IsErr(r[1]) THEN facts' = facts0 /\ Return(r[1], facts0)
           ELSE /\ facts' = r[2]
                /\ j' = j + 1
                /\ UNCHANGED <<pc, sorted, i, rules_fired, ret, runs>>
    /\ UNCHANGED <<rules, rule_index, moved, facts0, guards, ev_in, ev_out, ac_out, ps_in, ps_out>>

\* `self.execute_action(action, facts)?`
ExecAction ==
    /\ pc = "actions"
    /\ j <= Len(sorted[i].then_actions)
    /\ LET r == execute_action(sorted[i].then_actions[j], facts)
       IN  /\ facts' = r[2]
           /\ IF IsErr(r[1]) THEN Return(r[1], r[2])
              ELSE /\ j' = j + 1
                   /\ UNCHANGED <<pc, sorted, i, rules_fired, ret, runs>>
    /\ UNCHANGED <<rules, rule_index, moved, facts0, guards, ev_in, ev_out, ac_out, ps_in, ps_out>>

\* a fixed-point loop: after a rule has fired the pass starts over
RecordFiredRestart ==
    /\ pc = "actions"
    /\ j > Len(sorted[i].then_actions)
    /\ rules_fired' = Append(rules_fired, sorted[i].name)
    /\ i' = 1
    /\ j' = 0
    /\ pc' = "guard"
    /\ UNCHANGED <<rules, rule_index, facts, sorted, ret, moved, facts0, guards, runs,
                   ev_in, ev_out, ac_out, ps_in, ps_out>>

\* `result.rules_fired.push(rule.name.clone())`, then the next rule
RecordFired ==
    /\ pc = "actions"
    /\ j > Len(sorted[i].then_actions)
    /\ rules_fired' = Append(rules_fired, sorted[i].name)
    /\ i' = i + 1
    /\ j' = 0
    /\ pc' = "guard"
    /\ UNCHANGED <<rules, rule_index, facts, sorted, ret, moved, facts0, guards, runs,
                   ev_in, ev_out, ac_out, ps_in, ps_out>>

\* `Ok(result)` after the last rule
ExecuteReturn ==
    /\ pc = "guard"
    /\ i > Len(sorted)
    /\ Return(Ok(rules_fired), facts)
    /\ UNCHANGED <<rules, rule_index, facts, moved, facts0, guards, ev_in, ev_out, ac_out, ps_in, ps_out>>

Next ==
    \/ AddRule
    \/ RemoveRule
    \/ Clear
    \/ SetFacts
    \/ ExecuteBegin
    \/ EvalGuard
    \/ ExecAction
    \/ RecordFired
    \/ ExecuteReturn

Spec == Init /\ [][Next]_vars

-----------------------------------------------------------------------------
(* The evaluator on its own: Init draws an expression and a fact mapping,  *)
(* Evaluate applies evaluate_expression to them.                           *)

Pending == <<"Pending">>

EvalFacts ==
    FactsOf([n |-> VNull,
             o |-> VObject([k |-> Num(3)]),
             arr |-> VArray(<<Num(1)>>),
             s |-> VString("cd")])

EvalOperands ==
    { Num(0), Num(6), Num(-4), Fin(1, 2), NaN, PInf, NInf,
      VString(""), VString("ab"), VBoolean(TRUE), VBoolean(FALSE),
      Var("n"), Var("o"), Var("arr"), Var("s"), Var("missing"), Field("o", "k"),
      <<"Divide", Num(1), Num(0)>>,
      Assign("x", Num(1)), FieldAssign("o", "k", Num(1)),
      <<"Add", Num(6), <<"Not", Assign("x", Num(1))>>>> }

BinaryInputs == {<<op, l, r>> : op \in BinaryOps, l \in EvalOperands, r \in EvalOperands}

\* an operand on its own, field accesses on every kind of object, and Not
UnaryInputs ==
    EvalOperands
      \cup {<<"FieldAccess", e, f>> : e \in {Var("o"), Var("s"), Var("n"), Var("arr"),
                                            Var("missing"), Num(6), Field("o", "k")},
                                      f \in {"k", "zz"}}
      \cup {<<"Not", e>> : e \in EvalOperands}

\* expressions in the place of an action
ActionExpressions ==
    {Assign(name, e) : name \in {"n", "fresh"}, e \in EvalOperands}
      \cup {FieldAssign(obj, f, e) : obj \in {"o", "s", "missing"}, f \in {"k", "zz"},
                                     e \in EvalOperands}

EvalInputs == {<<e, EvalFacts>> : e \in BinaryInputs \cup UnaryInputs \cup ActionExpressions}

InitEval ==
    /\ rules = KnowledgeBase_new.rules
    /\ rule_index = KnowledgeBase_new.rule_index
    /\ facts = FactsOf(EmptyMap)
    /\ pc = "idle"
    /\ sorted = <<>>
    /\ i = 0
    /\ j = 0
    /\ rules_fired = <<>>
    /\ ret = NoRet
    /\ moved = 0
    /\ facts0 = FactsOf(EmptyMap)
    /\ guards = <<>>
    /\ runs = <<>>
    /\ ev_in \in EvalInputs
    /\ ev_out = Pending
    /\ ac_out = Pending
    /\ ps_in = NoInput
    /\ ps_out = NoInput

Evaluate ==
    /\ ev_out = Pending
    /\ ev_out' = evaluate_expression(ev_in[1], ev_in[2])
    /\ UNCHANGED <<rules, rule_index, facts, pc, sorted, i, j, rules_fired, ret, moved,
                   facts0, guards, runs, ev_in, ac_out, ps_in, ps_out>>

\* execute_action applied to the same expression and mapping
Act ==
    /\ ac_out = Pending
    /\ ac_out' = execute_action(ev_in[1], ev_in[2])
    /\ UNCHANGED <<rules, rule_index, facts, pc, sorted, i, j, rules_fired, ret, moved,
                   facts0, guards, runs, ev_in, ev_out, ps_in, ps_out>>

NextEval ==
    \/ Evaluate
    \/ Act

SpecEval == InitEval /\ [][NextEval]_vars

-----------------------------------------------------------------------------
(* Text.  A &str is the sequence of its characters, each a one-character   *)
(* string; offsets are 1-based and 0 stands for None.                      *)

Digits == <<"0", "1", "2", "3", "4", "5", "6", "7", "8", "9">>
Digit == {Digits[k] : k \in 1..Len(Digits)}
Letters == <<"a", "b", "c", "d", "e", "f", "g", "h", "i", "j", "k", "l", "m", "n", "o", "p", "q", "r", "s", "t", "u", "v", "w", "x", "y", "z", "A", "B", "C", "D", "E", "F", "G", "H", "I", "J", "K", "L", "M", "N", "O", "P", "Q", "R", "S", "T", "U", "V", "W", "X", "Y", "Z">>
Letter == {Letters[k] : k \in 1..Len(Letters)}
Whitespace == {" ", "\t", "\n", "\r"}

\* char::is_alphanumeric, on ASCII
is_alphanumeric(c) == c \in Letter \cup Digit

DigitValue(c) == (CHOOSE k \in 1..Len(Digits) : Digits[k] = c) - 1

starts_with(text, pat) ==
    Len(pat) <= Len(text) /\ SubSeq(text, 1, Len(pat)) = pat

ends_with(text, pat) ==
    Len(pat) <= Len(text) /\ SubSeq(text, Len(text) - Len(pat) + 1, Len(text)) = pat

StartsAt(text, pos, pat) ==
    pos + Len(pat) - 1 <= Len(text) /\ SubSeq(text, pos, pos + Len(pat) - 1) = pat

\* the offset of the last occurrence instead of the first
find_last(text, pat) ==
    LET hits == {p \in 1..Len(text) : StartsAt(text, p, pat)}
    IN  IF hits = {} THEN 0 ELSE CHOOSE p \in hits : \A q \in hits : p >= q

\* str::find: the offset of the first occurrence, 0 when there is none
find(text, pat) ==
    LET hits == {p \in 1..Len(text) : StartsAt(text, p, pat)}
    IN  IF hits = {} THEN 0 ELSE CHOOSE p \in hits : \A q \in hits : p <= q

\* str::rfind: the offset of the last occurrence, 0 when there is none
rfind(text, pat) ==
    LET hits == {p \in 1..Len(text) : StartsAt(text, p, pat)}
    IN  IF hits = {} THEN 0 ELSE CHOOSE p \in hits : \A q \in hits : p >= q

contains(text, c) == \E p \in 1..Len(text) : text[p] = c

\* str::trim: what lies between the first and the last character that is
\* no whitespace
trim(text) ==
    LET keep == {p \in 1..Len(text) : text[p] \notin Whitespace}
    IN  IF keep = {} THEN <<>>
        ELSE SubSeq(text, CHOOSE p \in keep : \A q \in keep : p <= q,
                          CHOOSE p \in keep : \A q \in keep : p >= q)

\* str::split(c): the pieces between the occurrences of c, empty ones included
RECURSIVE split(_, _)
split(text, c) ==
    LET p == find(text, <<c>>)
    IN  IF p = 0 THEN <<text>>
        ELSE <<SubSeq(text, 1, p - 1)>> \o split(SubSeq(text, p + 1, Len(text)), c)

\* `grl_text.replace('\n', " ").replace('\r', "")`
normalize(text) ==
    SelectSeq([k \in 1..Len(text) |-> IF text[k] = "\n" THEN " " ELSE text[k]],
              LAMBDA c : c # "\r")

-----------------------------------------------------------------------------
(* Regular expressions of the regex crate, as far as parser.rs uses them.  *)
(* A pattern is a sequence of elements; Match tries the alternatives in    *)
(* the crate's order of preference (leftmost-first alternation, greedy     *)
(* and lazy repetition) and returns the first that lets the rest match.    *)
(*   <<"lit", chars>>            the characters themselves                 *)
(*   <<"rep", class, min, lazy>> class+ / class* / class+? / class*?       *)
(*   <<"open", k>> <<"close", k>> the parentheses of capture group k       *)
(*   <<"opt", pattern>>          (?:pattern)?                              *)
(*   <<"star", pattern>>         (?:pattern)*                              *)
(*   <<"alt", <<p1, .., pn>>>>   p1|..|pn                                  *)
(*   <<"end">>                   $                                         *)

InClass(c, class) ==
    CASE class = "s" -> c \in Whitespace
      [] class = "w" -> c \in Letter \cup Digit \cup {"_"}
      [] class = "d" -> c \in Digit
      [] class = "notquote" -> c # "\""
      [] class = "any" -> c # "\n"

\* how many characters of the class follow from pos on
RunLength(text, pos, class) ==
    LET stops == {p \in pos..Len(text) : ~InClass(text[p], class)}
    IN  IF stops = {} THEN Len(text) - pos + 1
        ELSE (CHOOSE p \in stops : \A q \in stops : p <= q) - pos

NoMatch == <<FALSE>>
NoCaptures == [k \in 1..5 |-> <<0, 0>>]

RECURSIVE Match(_, _, _, _)
RECURSIVE RepTry(_, _, _, _, _, _, _)
RECURSIVE AltTry(_, _, _, _, _, _)

Match(pattern, text, pos, caps) ==
    IF Len(pattern) = 0 THEN <<TRUE, caps, pos>>
    ELSE LET e == Head(pattern)
             rest == Tail(pattern)
         IN  CASE e[1] = "lit" ->
                     IF StartsAt(text, pos, e[2])
                     THEN Match(rest, text, pos + Len(e[2]), caps)
                     ELSE NoMatch
               [] e[1] = "rep" ->
                     LET most == RunLength(text, pos, e[2])
                     IN  IF most < e[3] THEN NoMatch
                         ELSE RepTry(rest, text, pos, caps, e[3], most, e[4])
               [] e[1] = "open" ->
                     Match(rest, text, pos, [caps EXCEPT ![e[2]] = <<pos, 0>>])
               [] e[1] = "close" ->
                     Match(rest, text, pos, [caps EXCEPT ![e[2]] = <<@[1], pos>>])
               [] e[1] = "opt" ->
                     LET r == Match(e[2] \o rest, text, pos, caps)
                     IN  IF r[1] THEN r ELSE Match(rest, text, pos, caps)
               [] e[1] = "star" ->
                     LET r == Match(e[2] \o pattern, text, pos, caps)
                     IN  IF r[1] THEN r ELSE Match(rest, text, pos, caps)
               [] e[1] = "alt" ->
                     AltTry(e[2], 1, rest, text, pos, caps)
               [] e[1] = "end" ->
                     IF pos = Len(text) + 1 THEN Match(rest, text, pos, caps) ELSE NoMatch

\* a repetition of least..most characters: lazy, the shortest that lets the
\* rest match; greedy, the longest
RepTry(rest, text, pos, caps, least, most, lazy) ==
    IF lazy
    THEN LET fits == {n \in least..most : Match(rest, text, pos + n, caps)[1]}
         IN  IF fits = {} THEN NoMatch
             ELSE Match(rest, text, pos + (CHOOSE n \in fits : \A o \in fits : n <= o), caps)
    ELSE IF least > most THEN NoMatch
    ELSE LET r == Match(rest, text, pos + most, caps)
         IN  IF r[1] THEN r ELSE RepTry(rest, text, pos, caps, least, most - 1, lazy)

AltTry(alts, k, rest, text, pos, caps) ==
    IF k > Len(alts) THEN NoMatch
    ELSE LET r == Match(alts[k] \o rest, text, pos, caps)
         IN  IF r[1] THEN r ELSE AltTry(alts, k + 1, rest, text, pos, caps)

\* Regex::captures: the match that starts leftmost
captures(pattern, text) ==
    LET starts == {p \in 1..Len(text) + 1 : Match(pattern, text, p, NoCaptures)[1]}
    IN  IF starts = {} THEN NoMatch
        ELSE Match(pattern, text, CHOOSE p \in starts : \A q \in starts : p <= q, NoCaptures)

\* Captures::get(k): None for a group that took no part in the match
HasGroup(m, k) == m[2][k][1] # 0
Group(m, text, k) == SubSeq(text, m[2][k][1], m[2][k][2] - 1)

Lit(chars) == <<"lit", chars>>
Rep(class, least, lazy) == <<"rep", class, least, lazy>>
Open(k) == <<"open", k>>
Close(k) == <<"close", k>>

\* rule\s+(\w+)\s*(?:"([^"]*)")?\s*(?:salience\s+(\d+))?\s*\{\s*when\s+(.*?)\s+then\s+(.*?)\s*\}
rule_pattern ==
    << Lit(<<"r", "u", "l", "e">>), Rep("s", 1, FALSE), Open(1), Rep("w", 1, FALSE), Close(1),
       Rep("s", 0, FALSE),
       <<"opt", <<Lit(<<"\"">>), Open(2), Rep("notquote", 0, FALSE), Close(2), Lit(<<"\"">>)>>>>,
       Rep("s", 0, FALSE),
       <<"opt", <<Lit(<<"s", "a", "l", "i", "e", "n", "c", "e">>), Rep("s", 1, FALSE),
                  Open(3), Rep("d", 1, FALSE), Close(3)>>>>,
       Rep("s", 0, FALSE), Lit(<<"{">>), Rep("s", 0, FALSE), Lit(<<"w", "h", "e", "n">>), Rep("s", 1, FALSE),
       Open(4), Rep("any", 0, TRUE), Close(4),
       Rep("s", 1, FALSE), Lit(<<"t", "h", "e", "n">>), Rep("s", 1, FALSE),
       Open(5), Rep("any", 0, TRUE), Close(5),
       Rep("s", 0, FALSE), Lit(<<"}">>) >>

\* (==|!=|<|<=|>|>=)
operators == << <<Lit(<<"=", "=">>)>>, <<Lit(<<"!", "=">>)>>, <<Lit(<<"<">>)>>, <<Lit(<<"<", "=">>)>>, <<Lit(<<">">>)>>, <<Lit(<<">", "=">>)>> >>

\* (\w+(?:\.\w+)*)\s*(==|!=|<|<=|>|>=)\s*(.+?)(?:\s+&&|\s+\|\||$)
condition_pattern ==
    << Open(1), Rep("w", 1, FALSE), <<"star", <<Lit(<<".">>), Rep("w", 1, FALSE)>>>>, Close(1),
       Rep("s", 0, FALSE), Open(2), <<"alt", operators>>, Close(2),
       Rep("s", 0, FALSE), Open(3), Rep("any", 1, TRUE), Close(3),
       <<"alt", << <<Rep("s", 1, FALSE), Lit(<<"&", "&">>)>>,
                   <<Rep("s", 1, FALSE), Lit(<<"|", "|">>)>>,
                   <<<<"end">>>> >>>> >>

-----------------------------------------------------------------------------
(* str::parse of the standard library *)

\* the String of a sequence of characters
RECURSIVE StringOf(_)
StringOf(chars) ==
    IF Len(chars) = 0 THEN ""
    ELSE IF Len(chars) = 1 THEN chars[1]
    ELSE LET half == Len(chars) \div 2
         IN  StringOf(SubSeq(chars, 1, half)) \o StringOf(SubSeq(chars, half + 1, Len(chars)))

AllDigits(text) == \A k \in 1..Len(text) : text[k] \in Digit

RECURSIVE DecimalValue(_)
DecimalValue(digits) ==
    IF Len(digits) = 0 THEN 0
    ELSE 10 * DecimalValue(SubSeq(digits, 1, Len(digits) - 1)) + DigitValue(digits[Len(digits)])

RECURSIVE Pow10(_)
Pow10(n) == IF n = 0 THEN 1 ELSE 10 * Pow10(n - 1)

to_ascii_lowercase(text) ==
    [k \in 1..Len(text) |->
        IF \E p \in 27..52 : Letters[p] = text[k]
        THEN Letters[(CHOOSE p \in 27..52 : Letters[p] = text[k]) - 26]
        ELSE text[k]]

HasSign(text) == Len(text) > 0 /\ Head(text) \in {"+", "-"}
Unsigned(text) == IF HasSign(text) THEN Tail(text) ELSE text

I32Max == 2147483647

\* no digits are ever taken for an i32
parse_i32_unparsed(text) == <<"Err">>

\* the value of a digit sequence as i32::from_str accumulates it, with the
\* overflow it checks at every digit: -1 when the value leaves the range
RECURSIVE CheckedValue(_)
CheckedValue(digits) ==
    IF Len(digits) = 0 THEN 0
    ELSE LET v == CheckedValue(SubSeq(digits, 1, Len(digits) - 1))
             d == DigitValue(digits[Len(digits)])
         IN  IF v = -1 \/ v > (I32Max - d) \div 10 THEN -1 ELSE 10 * v + d

\* str::parse::<i32>: an optional sign and decimal digits, within the range of
\* i32 (the least i32, one below -I32Max, is left to the error case)
parse_i32(text) ==
    LET body == Unsigned(text)
        v == CheckedValue(body)
    IN  IF Len(body) > 0 /\ AllDigits(body) /\ v # -1
        THEN Ok(IF HasSign(text) /\ Head(text) = "-" THEN -v ELSE v)
        ELSE <<"Err">>

\* the decimal part of str::parse::<f64>: digits with at most one '.', and an
\* optional exponent; the value is kept exact
parse_decimal(text) ==
    LET value(whole, frac, ex) ==
            LET shift == IF HasSign(ex) /\ Head(ex) = "-"
                         THEN -DecimalValue(Unsigned(ex)) - Len(frac)
                         ELSE DecimalValue(Unsigned(ex)) - Len(frac)
                digits == DecimalValue(whole \o frac)
            IN  IF /\ AllDigits(whole) /\ AllDigits(frac) /\ Len(whole) + Len(frac) > 0
                   /\ Len(Unsigned(ex)) > 0 /\ AllDigits(Unsigned(ex))
                THEN Ok(IF shift >= 0 THEN Num(digits * Pow10(shift))
                                      ELSE Fin(digits, Pow10(-shift)))
                ELSE <<"Err">>
        pointed(mant, ex, dot) ==
            value(IF dot = 0 THEN mant ELSE SubSeq(mant, 1, dot - 1),
                  IF dot = 0 THEN <<>> ELSE SubSeq(mant, dot + 1, Len(mant)),
                  ex)
        mantissa(mant, ex) == pointed(mant, ex, find(mant, <<".">>))
        exponent(low, e) ==
            mantissa(IF e = 0 THEN low ELSE SubSeq(low, 1, e - 1),
                     IF e = 0 THEN <<"0">> ELSE SubSeq(low, e + 1, Len(low)))
        lowered(low) == exponent(low, find(low, <<"e">>))
    IN  lowered(to_ascii_lowercase(text))

\* str::parse::<f64>
parse_f64(text) ==
    LET negative == HasSign(text) /\ Head(text) = "-"
        signed(r) == IF IsOk(r) /\ negative THEN Ok(f64_neg(r[2])) ELSE r
        named(body, word) ==
            IF word \in {<<"i", "n", "f">>, <<"i", "n", "f", "i", "n", "i", "t", "y">>}
            THEN Ok(IF negative THEN NInf ELSE PInf)
            ELSE IF word = <<"n", "a", "n">> THEN Ok(NaN)
            ELSE signed(parse_decimal(body))
        unsigned(body) == named(body, to_ascii_lowercase(body))
    IN  unsigned(Unsigned(text))

-----------------------------------------------------------------------------
(* parser.rs.  A Result<_, String> is Ok(v) or <<"Err", message>>; a panic  *)
(* of the parser is <<"Panic">>.                                           *)

ParseErr(msg) == <<"Err", msg>>
Panic == <<"Panic">>

\* the first '.' splits an object from its field
parse_variable_or_field(var_text) ==
    LET dot_pos == find(var_text, <<".">>)
    IN  IF dot_pos # 0
        THEN <<"FieldAccess", <<"Variable", StringOf(SubSeq(var_text, 1, dot_pos - 1))>>,
               StringOf(SubSeq(var_text, dot_pos + 1, Len(var_text)))>>
        ELSE <<"Variable", StringOf(var_text)>>

RECURSIVE parse_value(_)
parse_value(value_text) ==
    LET sum(left, right) ==
            IF ~IsOk(left) THEN left
            ELSE IF ~IsOk(right) THEN right
            ELSE Ok(<<"Add", left[2], right[2]>>)
        arithmetic(trimmed, plus_pos) ==
            IF plus_pos # 0
            THEN sum(parse_value(SubSeq(trimmed, 1, plus_pos - 1)),
                     parse_value(SubSeq(trimmed, plus_pos + 3, Len(trimmed))))
            ELSE ParseErr("Cannot parse value: " \o StringOf(trimmed))
        value(trimmed, num) ==
            IF IsOk(num) THEN Ok(num[2])
            ELSE IF trimmed = <<"t", "r", "u", "e">> THEN Ok(VBoolean(TRUE))
            ELSE IF trimmed = <<"f", "a", "l", "s", "e">> THEN Ok(VBoolean(FALSE))
            ELSE IF starts_with(trimmed, <<"\"">>) /\ ends_with(trimmed, <<"\"">>)
            THEN \* `&trimmed[1..trimmed.len()-1]` panics on a lone quote
                 IF Len(trimmed) = 1 THEN Panic
                 ELSE Ok(VString(StringOf(SubSeq(trimmed, 2, Len(trimmed) - 1))))
            ELSE IF \A k \in 1..Len(trimmed) :
                        is_alphanumeric(trimmed[k]) \/ trimmed[k] = "." \/ trimmed[k] = "_"
            THEN Ok(parse_variable_or_field(trimmed))
            ELSE arithmetic(trimmed, rfind(trimmed, <<" ", "+", " ">>))
        parsed(trimmed) == value(trimmed, parse_f64(trimmed))
    IN  parsed(trim(value_text))

ComparisonOf(operator) ==
    CASE operator = <<"=", "=">> -> "Equal"
      [] operator = <<"!", "=">> -> "NotEqual"
      [] operator = <<"<">> -> "LessThan"
      [] operator = <<"<", "=">> -> "LessEqual"
      [] operator = <<">">> -> "GreaterThan"
      [] operator = <<">", "=">> -> "GreaterEqual"

\* the first " && " splits the text, then the first " || ", then a comparison
RECURSIVE parse_condition(_)
parse_condition(condition_text) ==
    LET connective(node, left, right) ==
            IF ~IsOk(left) THEN left
            ELSE IF ~IsOk(right) THEN right
            ELSE Ok(<<node, left[2], right[2]>>)
        comparison(operator, left_expr, right_expr) ==
            IF ~IsOk(right_expr) THEN right_expr
            ELSE Ok(<<ComparisonOf(operator), left_expr, right_expr[2]>>)
        captured(trimmed, m) ==
            IF m[1]
            THEN comparison(Group(m, trimmed, 2),
                            parse_variable_or_field(Group(m, trimmed, 1)),
                            parse_value(trim(Group(m, trimmed, 3))))
            ELSE ParseErr("Cannot parse condition: " \o StringOf(trimmed))
        logical(trimmed, and_pos, or_pos) ==
            IF and_pos # 0
            THEN connective("And", parse_condition(SubSeq(trimmed, 1, and_pos - 1)),
                            parse_condition(SubSeq(trimmed, and_pos + 4, Len(trimmed))))
            ELSE IF or_pos # 0
            THEN connective("Or", parse_condition(SubSeq(trimmed, 1, or_pos - 1)),
                            parse_condition(SubSeq(trimmed, or_pos + 4, Len(trimmed))))
            ELSE captured(trimmed, captures(condition_pattern, trimmed))
        parsed(trimmed) ==
            logical(trimmed, find(trimmed, <<" ", "&", "&", " ">>),
                    find(trimmed, <<" ", "|", "|", " ">>))
    IN  parsed(trim(condition_text))

\* one segment of the then clause: the actions it adds, or the failure
parse_action(action_text) ==
    LET assignment(left, parts, value_expr) ==
            IF contains(left, ".")
            THEN IF Len(parts) = 2
                 THEN IF ~IsOk(value_expr) THEN value_expr
                      ELSE Ok(<<<<"FieldAssignment", StringOf(parts[1]), StringOf(parts[2]),
                                  value_expr[2]>>>>)
                 ELSE Ok(<<>>)
            ELSE IF ~IsOk(value_expr) THEN value_expr
                 ELSE Ok(<<<<"Assignment", StringOf(left), value_expr[2]>>>>)
        sides(left, right) == assignment(left, split(left, "."), parse_value(right))
        segment(trimmed, eq_pos) ==
            IF Len(trimmed) = 0 \/ eq_pos = 0 THEN Ok(<<>>)
            ELSE sides(trim(SubSeq(trimmed, 1, eq_pos - 1)),
                       trim(SubSeq(trimmed, eq_pos + 3, Len(trimmed))))
        parsed(trimmed) == segment(trimmed, find(trimmed, <<" ", "=", " ">>))
    IN  parsed(trim(action_text))

RECURSIVE ParseSegments(_, _, _)
ParseSegments(segments, k, actions) ==
    LET pushed(r) == IF ~IsOk(r) THEN r ELSE ParseSegments(segments, k + 1, actions \o r[2])
    IN  IF k > Len(segments) THEN Ok(actions) ELSE pushed(parse_action(segments[k]))

\* `for action_text in actions_text.split(';')`
parse_actions(actions_text) == ParseSegments(split(actions_text, ";"), 1, <<>>)

parse_rule(grl_text) ==
    LET salience(text) == LET n == parse_i32(text) IN IF IsOk(n) THEN n[2] ELSE 0
        built(rule, has_description, description) ==
            IF has_description THEN Ok(with_description(rule, description)) ELSE Ok(rule)
        clauses(normalized, m, when_condition, then_actions) ==
            IF ~IsOk(when_condition) THEN when_condition
            ELSE IF ~IsOk(then_actions) THEN then_actions
            ELSE built(Rule_new(StringOf(Group(m, normalized, 1)),
                                IF HasGroup(m, 3) THEN salience(Group(m, normalized, 3)) ELSE 0,
                                when_condition[2], then_actions[2]),
                       HasGroup(m, 2), StringOf(Group(m, normalized, 2)))
        captured(normalized, m) ==
            IF m[1]
            THEN clauses(normalized, m, parse_condition(Group(m, normalized, 4)),
                         parse_actions(Group(m, normalized, 5)))
            ELSE ParseErr("Invalid GRL syntax")
        parsed(normalized) == captured(normalized, captures(rule_pattern, normalized))
    IN  parsed(normalize(grl_text))

-----------------------------------------------------------------------------
(* The parser on its own: Init draws the parts of a rule text, Parse       *)
(* writes the text out and applies parse_rule to it.  A part is the text   *)
(* as written together with the value the writer means by it.              *)

MaxChain == 3
MaxSegments == 2

Piece(text, value) == [text |-> text, value |-> value]
Absent == [present |-> FALSE, text |-> <<>>, value |-> None]
Present(text, value) == [present |-> TRUE, text |-> text, value |-> Some(value)]
Unmeant(text) == [present |-> TRUE, text |-> text, value |-> None]

NameParts == {Piece(<<"R">>, "R"), Piece(<<"S", "p", "e", "e", "d", "_", "U", "p", "1">>, "Speed_Up1")}

DescriptionParts == {Present(<<"d">>, "d"), Present(<<"g", "o", " ", "f", "a", "s", "t", "e", "r">>, "go faster"), Present(<<>>, "")}

\* saliences written with digits only, within i32
DigitSaliences == {Present(<<"5">>, 5), Present(<<"0">>, 0), Present(<<"2", "1", "4", "7", "4", "8", "3", "6", "4", "7">>, I32Max)}
\* saliences written with a sign
SignedSaliences == {Present(<<"-", "5">>, -5), Present(<<"-", "1">>, -1), Present(<<"+", "7">>, 7)}
\* digits beyond the range of i32: the writer means no i32 by them
WideSaliences == {Unmeant(<<"2", "1", "4", "7", "4", "8", "3", "6", "4", "8">>), Unmeant(<<"9", "9", "9", "9", "9", "9", "9", "9", "9", "9", "9">>)}

NumberParts == {Piece(<<"1", "0">>, Num(10)), Piece(<<"2", "0", ".", "0">>, Num(20)), Piece(<<"-", "2", ".", "5">>, Fin(-5, 2))}

ValueParts ==
    NumberParts \cup
    { Piece(<<"\"", "h", "i", "\"">>, VString("hi")), Piece(<<"t", "r", "u", "e">>, VBoolean(TRUE)),
      Piece(<<"z">>, Var("z")), Piece(<<"q", ".", "r">>, Field("q", "r")),
      Piece(<<"x", " ", "+", " ", "1">>, <<"Add", Var("x"), Num(1)>>) }

VariableParts == {Piece(<<"x">>, Var("x")), Piece(<<"s", "p", "e", "e", "d">>, Var("speed"))}
LeftParts == {Piece(<<"x">>, Var("x")), Piece(<<"a", ".", "b">>, Field("a", "b"))}

OperatorNames == {"==", "!=", "<", "<=", ">", ">="}

OperatorText(op) ==
    CASE op = "==" -> <<"=", "=">>
      [] op = "!=" -> <<"!", "=">>
      [] op = "<" -> <<"<">>
      [] op = "<=" -> <<"<", "=">>
      [] op = ">" -> <<">">>
      [] op = ">=" -> <<">", "=">>

Comparison(lhs, op, rhs) == [lhs |-> lhs, op |-> op, rhs |-> rhs]
ComparisonText(c) == c.lhs.text \o <<" ">> \o OperatorText(c.op) \o <<" ">> \o c.rhs.text

\* the comparisons a chain is made of
ChainTerms ==
    { Comparison(Piece(<<"x">>, Var("x")), "==", Piece(<<"1", "0">>, Num(10))),
      Comparison(Piece(<<"a", ".", "b">>, Field("a", "b")), "!=", Piece(<<"\"", "h", "i", "\"">>, VString("hi"))),
      Comparison(Piece(<<"y">>, Var("y")), ">", Piece(<<"z">>, Var("z"))) }

When(terms, conn) == [terms |-> terms, conn |-> conn]

RECURSIVE Join(_, _)
Join(texts, sep) ==
    IF Len(texts) = 0 THEN <<>>
    ELSE IF Len(texts) = 1 THEN texts[1]
    ELSE texts[1] \o sep \o Join(Tail(texts), sep)

WhenText(w) ==
    Join([k \in 1..Len(w.terms) |-> ComparisonText(w.terms[k])],
         IF w.conn = "&&" THEN <<" ", "&", "&", " ">> ELSE <<" ", "|", "|", " ">>)

Segment(text, kind, value) == [text |-> text, kind |-> kind, value |-> value]

SegmentParts ==
    { Segment(<<"y", " ", "=", " ", "2", "0">>, "assign", Assign("y", Num(20))),
      Segment(<<"a", ".", "b", " ", "=", " ", "x", " ", "+", " ", "1">>, "field", FieldAssign("a", "b", <<"Add", Var("x"), Num(1)>>)),
      Segment(<<"j", "u", "n", "k">>, "no equals", None),
      Segment(<<"y", " ", "=", " ", "a", " ", "b">>, "no value", None),
      Segment(<<"a", ".", "b", ".", "c", " ", "=", " ", "2">>, "no target", None),
      Segment(<<" ">>, "empty", None) }

ThenText(segments, semi) ==
    Join([k \in 1..Len(segments) |-> segments[k].text], <<";", " ">>) \o (IF semi THEN <<";">> ELSE <<>>)

Separators == {<<" ">>, <<"\n">>, <<"\r", "\n", " ", " ">>}

RuleText(in) ==
    <<"r", "u", "l", "e", " ">> \o in.name.text
      \o (IF in.description.present THEN <<" ", "\"">> \o in.description.text \o <<"\"">> ELSE <<>>)
      \o (IF in.salience.present THEN <<" ", "s", "a", "l", "i", "e", "n", "c", "e", " ">> \o in.salience.text ELSE <<>>)
      \o <<" ", "{">> \o in.sep \o <<"w", "h", "e", "n", " ">> \o WhenText(in.when)
      \o in.sep \o <<"t", "h", "e", "n", " ">> \o ThenText(in.then, in.semi) \o in.sep \o <<"}">>

BaseInput ==
    [ name |-> Piece(<<"R">>, "R"), description |-> Absent, salience |-> Absent,
      when |-> When(<<Comparison(Piece(<<"x">>, Var("x")), "==", Piece(<<"1", "0">>, Num(10)))>>, "&&"),
      then |-> <<Segment(<<"y", " ", "=", " ", "2", "0">>, "assign", Assign("y", Num(20)))>>,
      sep |-> <<" ">>, semi |-> TRUE ]

\* rule <name> "<description>" salience <n> { when <var> == <number> then <var2> = <number2>; }
SimpleInputs ==
    { [ BaseInput EXCEPT !.name = n, !.description = d, !.salience = s, !.sep = sep,
            !.when = When(<<Comparison(v, "==", x)>>, "&&"),
            !.then = <<Segment(v2.text \o <<" ", "=", " ">> \o x2.text, "assign",
                               Assign(v2.value[2], x2.value))>> ]
      : n \in NameParts, d \in DescriptionParts, s \in DigitSaliences, sep \in Separators,
        v \in VariableParts, x \in NumberParts, v2 \in VariableParts, x2 \in NumberParts }

ComparisonInputs ==
    { [BaseInput EXCEPT !.when = When(<<Comparison(l, op, r)>>, "&&")]
      : l \in LeftParts, op \in OperatorNames, r \in ValueParts }

SeqsUpTo(S, n) == UNION {[1..k -> S] : k \in 1..n}

ChainInputs ==
    { [BaseInput EXCEPT !.when = When(terms, conn)]
      : terms \in SeqsUpTo(ChainTerms, MaxChain), conn \in {"&&", "||"} }

ActionInputs ==
    { [BaseInput EXCEPT !.then = segments, !.semi = semi]
      : segments \in SeqsUpTo(SegmentParts, MaxSegments), semi \in BOOLEAN }

SalienceInputs ==
    { [BaseInput EXCEPT !.salience = s, !.description = d, !.sep = sep]
      : s \in {Absent} \cup DigitSaliences \cup SignedSaliences \cup WideSaliences,
        d \in {Absent} \cup DescriptionParts, sep \in Separators }

ParseInputs ==
    SimpleInputs \cup ComparisonInputs \cup ChainInputs \cup ActionInputs \cup SalienceInputs

InitParse ==
    /\ rules = KnowledgeBase_new.rules
    /\ rule_index = KnowledgeBase_new.rule_index
    /\ facts = FactsOf(EmptyMap)
    /\ pc = "idle"
    /\ sorted = <<>>
    /\ i = 0
    /\ j = 0
    /\ rules_fired = <<>>
    /\ ret = NoRet
    /\ moved = 0
    /\ facts0 = FactsOf(EmptyMap)
    /\ guards = <<>>
    /\ runs = <<>>
    /\ ev_in = NoInput
    /\ ev_out = NoInput
    /\ ac_out = NoInput
    /\ ps_in \in ParseInputs
    /\ ps_out = Pending

Parse ==
    /\ ps_out = Pending
    /\ ps_out' = parse_rule(RuleText(ps_in))
    /\ UNCHANGED <<rules, rule_index, facts, pc, sorted, i, j, rules_fired, ret, moved,
                   facts0, guards, runs, ev_in, ev_out, ac_out, ps_in>>

NextParse == Parse

SpecParse == InitParse /\ [][NextParse]_vars

-----------------------------------------------------------------------------
(* Properties of the knowledge base *)

Positions(s) == 1..Len(s)

Count(s, x) == Cardinality({p \in Positions(s) : s[p] = x})

\* the positions at which the rule appears in insertion order
StoredAt(r) == {p \in Positions(rules) : rules[p] = r}

HasName(n) == \E p \in Positions(rules) : rules[p].name = n

\* C1: from every knowledge base that add_rule, remove_rule and clear can
\* build, get_rules_sorted_by_salience returns a permutation of the stored
\* rules whose saliences never increase and in which two rules of equal
\* salience keep the order in which get_rules lists them.
C1_SortedBySalience ==
    LET s == get_rules_sorted_by_salience(KB)
    IN  /\ Len(s) = len(KB)
        /\ \A p \in Positions(rules) : Count(s, rules[p]) = Count(get_rules(KB), rules[p])
        /\ \A p, q \in Positions(s) : p < q => s[p].salience >= s[q].salience
        /\ \A p, q \in Positions(s) :
              (p < q /\ s[p].salience = s[q].salience) =>
                  \A a \in StoredAt(s[p]), b \in StoredAt(s[q]) : a < b

\* three rules, two of them tied behind a later-added rule of higher salience
C1_Witness ==
    /\ Len(rules) = 3
    /\ get_rules_sorted_by_salience(KB) # rules
    /\ rules[1].salience = rules[2].salience
    /\ rules[3].salience > rules[1].salience
    /\ rules[1] # rules[2]

\* C2: add_rule with a rule whose name is already stored returns an error
\* and changes nothing: the same length, the same sequence of rules, and for
\* every name the same rule from get_rule as before.
C2_DuplicateRejected ==
    [][(ret'[1] = "add_rule" /\ HasName(ret'[2].name)) =>
          LET after == [rules |-> rules', rule_index |-> rule_index']
          IN  /\ IsErr(ret'[3])
              /\ len(after) = len(KB)
              /\ get_rules(after) = get_rules(KB)
              /\ \A n \in RuleNames : get_rule(after, n) = get_rule(KB, n)]_vars

\* a duplicate was refused whose content differs from the rule stored under the name
C2_Witness ==
    /\ ret[1] = "add_rule"
    /\ IsErr(ret[3])
    /\ get_rule(KB, ret[2].name) # None
    /\ get_rule(KB, ret[2].name) # Some(ret[2])
    /\ Len(rules) >= 2

\* C3: after any sequence of add_rule, remove_rule and clear the index agrees
\* with the rule sequence: the index entry of every stored rule is its
\* position and get_rule returns that rule, get_rule returns None for a name
\* that is not stored, and the index has len() entries.
C3_IndexConsistent ==
    /\ \A p \in Positions(rules) :
          /\ rules[p].name \in DOMAIN rule_index
          /\ rule_index[rules[p].name] = p - 1
          /\ get_rule(KB, rules[p].name) = Some(rules[p])
    /\ \A n \in RuleNames : ~HasName(n) => get_rule(KB, n) = None
    /\ Cardinality(DOMAIN rule_index) = len(KB)

\* remove_rule took out a rule in front of two survivors, whose indices it moved
C3_Witness ==
    /\ ret[1] = "remove_rule"
    /\ ret[3][1] = "Some"
    /\ moved = 2
    /\ Len(rules) = 2

-----------------------------------------------------------------------------
(* Properties of execute *)

Returned == ret[1] = "execute"
ReturnedOk == Returned /\ IsOk(ret[3])
ReturnedErr == Returned /\ IsErr(ret[3])

\* rules_fired of the ExecutionResult returned
Fired == ret[3][2]

Range(s) == {s[p] : p \in Positions(s)}

NoDuplicates(s) == \A p, q \in Positions(s) : p # q => s[p] # s[q]

PosOf(n) == CHOOSE p \in Positions(rules) : rules[p].name = n

RuleNamed(n) == rules[PosOf(n)]

\* the mapping left by a rule's actions run in order up to the first that fails
RECURSIVE RunActions(_, _)
RunActions(acts, fs) ==
    IF acts = <<>> THEN fs
    ELSE LET r == execute_action(Head(acts), fs)
         IN  IF IsErr(r[1]) THEN fs ELSE RunActions(Tail(acts), r[2])

\* the mapping left by the rules whose guard the log records as truthy
RECURSIVE Replay(_, _)
Replay(log, fs) ==
    IF log = <<>> THEN fs
    ELSE Replay(Tail(log),
                IF Head(log)[2] = Ok(TRUE)
                THEN RunActions(RuleNamed(Head(log)[1]).then_actions, fs)
                ELSE fs)

\* the guards were evaluated down the salience order, without a gap
LogFollowsOrder ==
    LET s == get_rules_sorted_by_salience(KB)
    IN  /\ Len(guards) <= Len(s)
        /\ \A g \in Positions(guards) : guards[g][1] = s[g].name

\* C4: in a successful execute, of two rules that both fired the one of
\* strictly higher salience comes earlier in rules_fired, whichever was added
\* first, and two of equal salience come in insertion order.
C4_FiredBySalience ==
    ReturnedOk =>
        \A p, q \in Positions(Fired) :
            p < q =>
                LET a == RuleNamed(Fired[p])
                    b == RuleNamed(Fired[q])
                IN  /\ a.salience >= b.salience
                    /\ a.salience = b.salience => PosOf(a.name) < PosOf(b.name)

\* two rules fired, the one added later first
C4_Witness ==
    /\ ReturnedOk
    /\ \E p, q \in Positions(Fired) :
          /\ p < q
          /\ PosOf(Fired[p]) > PosOf(Fired[q])
          /\ RuleNamed(Fired[p]).salience > RuleNamed(Fired[q]).salience

\* a guard that is not truthy: the pass goes on to the next rule with the
\* mapping and rules_fired as they were; no guard evaluation changes the mapping
C5_Step ==
    /\ pc = "guard" => facts' = facts
    /\ (/\ pc = "guard"
        /\ i <= Len(sorted)
        /\ evaluate_condition(sorted[i].when_condition, facts) = Ok(FALSE))
       => /\ pc' = "guard"
          /\ i' = i + 1
          /\ rules_fired' = rules_fired

C5_State ==
    /\ \A g \in Positions(guards) :
          guards[g][2] = Ok(FALSE) =>
              /\ guards[g][1] \notin Range(rules_fired)
              /\ ReturnedOk => guards[g][1] \notin Range(Fired)
    /\ (ReturnedOk /\ \A g \in Positions(guards) : guards[g][2] = Ok(FALSE))
          => Fired = <<>> /\ facts = facts0

\* C5: a rule whose guard evaluates to a value that is not truthy runs none
\* of its actions, the evaluation of a guard leaves the fact mapping as it
\* was, and the rule's name is not in rules_fired; a pass in which no guard is
\* truthy returns an empty rules_fired and the fact mapping unchanged.
C5_FalsyGuardSkips == [] C5_State /\ [][C5_Step]_vars

\* a pass over two rules with actions, neither guard truthy, one no Boolean
C5_Witness ==
    /\ ReturnedOk
    /\ Len(guards) = 2
    /\ \A g \in Positions(guards) :
          /\ guards[g][2] = Ok(FALSE)
          /\ RuleNamed(guards[g][1]).then_actions # <<>>
    /\ \E g \in Positions(guards) : RuleNamed(guards[g][1]).when_condition[1] = "Number"

\* the step at which a guard or an action fails ends the call with that error
C6_Step ==
    /\ (pc = "guard" /\ i <= Len(sorted)
        /\ IsErr(evaluate_condition(sorted[i].when_condition, facts)))
       => /\ pc' = "idle"
          /\ ret' = <<"execute", <<>>, evaluate_condition(sorted[i].when_condition, facts)>>
          /\ facts' = facts
    /\ (pc = "actions" /\ j <= Len(sorted[i].then_actions)
        /\ IsErr(execute_action(sorted[i].then_actions[j], facts)[1]))
       => /\ pc' = "idle"
          /\ ret' = <<"execute", <<>>, execute_action(sorted[i].then_actions[j], facts)[1]>>
          /\ facts' = facts

\* after a failed call: the failing rule is the last one evaluated, and the
\* mapping holds what the rules fired before it and its own earlier actions did
C6_State ==
    ReturnedErr =>
        /\ pc = "idle"
        /\ guards # <<>>
        /\ LogFollowsOrder
        /\ \A g \in 1..(Len(guards) - 1) : IsOk(guards[g][2])
        /\ guards[Len(guards)][2] \in {ret[3], Ok(TRUE)}
        /\ facts = Replay(guards, facts0)

\* C6: a guard evaluation or an action that fails makes execute return that
\* error at once, with no ExecutionResult; no later rule or action is
\* evaluated, and nothing is rolled back: the mapping holds the mutations of
\* the rules fired earlier and of the failing rule's actions before the one
\* that failed.
C6_ErrorAborts == [] C6_State /\ [][C6_Step]_vars

\* RuleE fired (x = 0), then RuleD set y = 1 and failed on its second action
C6_Witness ==
    /\ ReturnedErr
    /\ ret[3][2] = "DivisionByZero"
    /\ Len(guards) = 2
    /\ guards[1][2] = Ok(TRUE)
    /\ guards[2][2] = Ok(TRUE)
    /\ facts0["x"].value = Num(3)
    /\ facts0["y"].value = Num(10)
    /\ facts["x"].value = Num(0)
    /\ facts["y"].value = Num(1)

IsTruthyEntry(e) == e[2] = Ok(TRUE)

NameOfEntry(s) == [p \in Positions(s) |-> s[p][1]]

\* C7: execute is one left-to-right pass.  No guard is evaluated twice in a
\* call; each is evaluated against the mapping as the rules fired earlier in
\* the pass left it; rules_fired names, in order, exactly the rules whose
\* guard was truthy at their turn, none of them twice; and the successful
\* pass ends when every rule has had its one turn.
C7_SinglePass ==
    /\ NoDuplicates(NameOfEntry(guards))
    /\ NoDuplicates(rules_fired)
    /\ (pc # "idle" \/ Returned) =>
          /\ LogFollowsOrder
          /\ \A g \in Positions(guards) :
                guards[g][2] = evaluate_condition(RuleNamed(guards[g][1]).when_condition,
                                                  Replay(SubSeq(guards, 1, g - 1), facts0))
    /\ ReturnedOk =>
          /\ Len(guards) = Len(rules)
          /\ Fired = NameOfEntry(SelectSeq(guards, IsTruthyEntry))
          /\ NoDuplicates(Fired)

\* in one pass: a guard that an earlier rule's action made true, so that its
\* rule fired, and a guard that was false at its turn and true at the end,
\* whose rule did not fire
C7_Witness ==
    /\ ReturnedOk
    /\ \E g \in Positions(guards) :
          /\ guards[g][2] = Ok(TRUE)
          /\ evaluate_condition(RuleNamed(guards[g][1]).when_condition, facts0) = Ok(FALSE)
    /\ \E g \in Positions(guards) :
          /\ guards[g][2] = Ok(FALSE)
          /\ evaluate_condition(RuleNamed(guards[g][1]).when_condition, facts) = Ok(TRUE)
          /\ guards[g][1] \notin Range(Fired)

C10_WitnessErr ==
    /\ Len(runs) = 2
    /\ IsErr(runs[2].ret)
    /\ runs[2].facts # runs[2].facts0

-----------------------------------------------------------------------------
(* Properties of evaluate_expression *)

Evaluated == ev_out # Pending

\* the values of the two operands of the expression evaluated
LeftVal == evaluate_expression(ev_in[1][2], ev_in[2])
RightVal == evaluate_expression(ev_in[1][3], ev_in[2])

IsFinite(v) == v[1] = "Number" /\ v[2] = "fin"
IsZero(v) == IsFinite(v) /\ v[3] = 0

\* C8: Add of two Numbers is the Number a + b, Add of two Strings is the
\* String a followed by b, and Add of any other pair of variants fails with
\* TypeError.
C8_Add ==
    (Evaluated /\ ev_in[1][1] = "Add" /\ IsOk(LeftVal) /\ IsOk(RightVal)) =>
        LET a == LeftVal[2]
            b == RightVal[2]
        IN  CASE a[1] = "Number" /\ b[1] = "Number" ->
                    /\ IsOk(ev_out)
                    /\ ev_out[2][1] = "Number"
                    /\ IF IsFinite(a) /\ IsFinite(b)
                       THEN /\ IsFinite(ev_out[2])
                            /\ ev_out[2][3] * (a[4] * b[4])
                                   = (a[3] * b[4] + b[3] * a[4]) * ev_out[2][4]
                       ELSE ev_out[2] = f64_add(a, b)
              [] a[1] = "String" /\ b[1] = "String" ->
                    ev_out = Ok(VString(a[2] \o b[2]))
              [] OTHER ->
                    IsErr(ev_out) /\ ev_out[2] = "TypeError"

\* "ab" + the String fact s: the left operand's text comes first
C8_Witness ==
    /\ ev_in[1] = <<"Add", VString("ab"), Var("s")>>
    /\ ev_out = Ok(VString("abcd"))

\* C9: Divide of two Numbers fails with DivisionByZero when the right one is
\* zero, whatever the left one, and gives the quotient when it is not; Divide
\* of any other pair of variants fails with TypeError.
C9_Divide ==
    (Evaluated /\ ev_in[1][1] = "Divide" /\ IsOk(LeftVal) /\ IsOk(RightVal)) =>
        LET a == LeftVal[2]
            b == RightVal[2]
        IN  IF a[1] = "Number" /\ b[1] = "Number"
            THEN IF IsZero(b)
                 THEN IsErr(ev_out) /\ ev_out[2] = "DivisionByZero"
                 ELSE /\ IsOk(ev_out)
                      /\ ev_out[2][1] = "Number"
                      /\ IF IsFinite(a) /\ IsFinite(b)
                         THEN /\ IsFinite(ev_out[2])
                              /\ ev_out[2][3] * (b[3] * a[4]) = (a[3] * b[4]) * ev_out[2][4]
                         ELSE ev_out[2] = f64_div(a, b)
            ELSE IsErr(ev_out) /\ ev_out[2] = "TypeError"

\* NaN / 0 is DivisionByZero too
C9_Witness ==
    /\ ev_in[1] = <<"Divide", NaN, Num(0)>>
    /\ IsErr(ev_out)
    /\ ev_out[2] = "DivisionByZero"

-----------------------------------------------------------------------------
(* Properties of the parser *)

Parsed == ps_out # Pending

\* the node the operator of a written comparison stands for
NodeOf(op) ==
    CASE op = "==" -> "Equal"
      [] op = "!=" -> "NotEqual"
      [] op = "<" -> "LessThan"
      [] op = "<=" -> "LessEqual"
      [] op = ">" -> "GreaterThan"
      [] op = ">=" -> "GreaterEqual"

\* the expression a written comparison stands for
Meant(c) == <<NodeOf(c.op), c.lhs.value, c.rhs.value>>

\* the actions the written segments stand for, in order
RECURSIVE MeantActions(_)
MeantActions(segments) ==
    IF Len(segments) = 0 THEN <<>>
    ELSE IF Head(segments).kind \in {"assign", "field"}
    THEN <<Head(segments).value>> \o MeantActions(Tail(segments))
    ELSE MeantActions(Tail(segments))

IsSimple(in) ==
    /\ in.description.present
    /\ in.salience \in DigitSaliences
    /\ Len(in.when.terms) = 1
    /\ in.when.terms[1].op = "=="
    /\ in.when.terms[1].lhs \in VariableParts
    /\ in.when.terms[1].rhs \in NumberParts
    /\ Len(in.then) = 1
    /\ in.then[1].kind = "assign"
    /\ in.then[1].value[3][1] = "Number"
    /\ in.semi

\* C11: a text of the form
\*   rule <name> "<description>" salience <n> { when <var> == <number> then <var2> = <number2>; }
\* with blanks or line breaks between its parts parses to the rule with that
\* name, description Some(description), salience n, the guard
\* Equal(Variable(var), Number(number)) and the one action
\* Assignment(var2, Number(number2)).
C11_SimpleRule ==
    (Parsed /\ IsSimple(ps_in)) =>
        ps_out = Ok([ name |-> ps_in.name.value,
                      description |-> ps_in.description.value,
                      salience |-> ps_in.salience.value[2],
                      when_condition |-> <<"Equal", ps_in.when.terms[1].lhs.value,
                                           ps_in.when.terms[1].rhs.value>>,
                      then_actions |-> <<ps_in.then[1].value>> ])

C11_Witness ==
    /\ Parsed
    /\ IsSimple(ps_in)
    /\ ps_in.sep = <<"\r", "\n", " ", " ">>
    /\ IsOk(ps_out)
    /\ ps_out[2].name = "Speed_Up1"
    /\ ps_out[2].description = Some("go faster")
    /\ ps_out[2].salience = I32Max
    /\ ps_out[2].when_condition = <<"Equal", Var("speed"), Fin(-5, 2)>>
    /\ ps_out[2].then_actions = <<Assign("x", Num(20))>>

IsComparison(in) ==
    /\ Len(in.when.terms) = 1
    /\ ~in.description.present
    /\ ~in.salience.present
    /\ Len(in.then) = 1
    /\ in.then[1].kind = "assign"

\* C12: a condition `<lhs> <op> <rhs>` parses, for each of the six operators,
\* to the node of that operator over the parsed sides
C12_EveryOperator ==
    (Parsed /\ IsComparison(ps_in)) =>
        /\ IsOk(ps_out)
        /\ ps_out[2].when_condition = Meant(ps_in.when.terms[1])

RECURSIVE LeftNested(_, _)
LeftNested(terms, node) ==
    IF Len(terms) = 1 THEN Meant(terms[1])
    ELSE <<node, LeftNested(SubSeq(terms, 1, Len(terms) - 1), node), Meant(terms[Len(terms)])>>

RECURSIVE RightNested(_, _)
RightNested(terms, node) ==
    IF Len(terms) = 1 THEN Meant(terms[1])
    ELSE <<node, Meant(terms[1]), RightNested(Tail(terms), node)>>

IsChain(in) ==
    /\ Len(in.when.terms) >= 2
    /\ \A k \in 1..Len(in.when.terms) : in.when.terms[k] \in ChainTerms

ConnNode(in) == IF in.when.conn = "&&" THEN "And" ELSE "Or"

\* C13 as stated: a chain of one connective nests to the left,
\* c1 && c2 && c3 giving And(And(c1, c2), c3)
C13_LeftAssociative ==
    (Parsed /\ IsChain(ps_in)) =>
        /\ IsOk(ps_out)
        /\ ps_out[2].when_condition = LeftNested(ps_in.when.terms, ConnNode(ps_in))

\* C13: a chain of one connective nests to the right, the text being split
\* at the first connective: c1 && c2 && c3 gives And(c1, And(c2, c3)) and
\* c1 || c2 || c3 gives Or(c1, Or(c2, c3))
C13_RightNested ==
    (Parsed /\ IsChain(ps_in)) =>
        /\ IsOk(ps_out)
        /\ ps_out[2].when_condition = RightNested(ps_in.when.terms, ConnNode(ps_in))

C13_Witness ==
    /\ Parsed
    /\ Len(ps_in.when.terms) = 3
    /\ ps_in.when.conn = "||"
    /\ IsOk(ps_out)
    /\ ps_out[2].when_condition =
          <<"Or", <<"GreaterThan", Var("y"), Var("z")>>,
                  <<"Or", <<"Equal", Var("x"), Num(10)>>,
                          <<"NotEqual", Field("a", "b"), VString("hi")>>>>>>

\* C14: a rule comes out of parse_rule only when every segment of its then
\* clause that is not empty gave one action, in the order written; a segment
\* without " = " or without a value or target to make an action of makes
\* parse_rule fail
C14_NoSegmentDropped ==
    (Parsed /\ Len(ps_in.when.terms) = 1) =>
        IF \A k \in 1..Len(ps_in.then) : ps_in.then[k].kind \in {"assign", "field", "empty"}
        THEN IsOk(ps_out) /\ ps_out[2].then_actions = MeantActions(ps_in.then)
        ELSE ~IsOk(ps_out)

\* C15: `salience N` gives the rule the salience N, for N of either sign
C15_SalienceAsWritten ==
    (Parsed /\ ps_in.salience.present /\ ps_in.salience.value # None) =>
        /\ IsOk(ps_out)
        /\ ps_out[2].salience = ps_in.salience.value[2]

-----------------------------------------------------------------------------
(* Properties of comparisons, connectives and assignments in the evaluator *)

Acted == ac_out # Pending

\* two values of one variant among String, Number, Boolean and Null that are
\* equal, Numbers as f64 compares them (a NaN equals nothing)
SameValue(a, b) ==
    /\ a[1] = b[1]
    /\ a[1] \in {"String", "Number", "Boolean", "Null"}
    /\ IF a[1] = "Number"
       THEN a[2] # "nan" /\ b[2] # "nan" /\ a[2] = b[2] /\ a[3] * b[4] = b[3] * a[4]
       ELSE a = b

\* C16: on operands that evaluate, Equal and NotEqual never fail: Equal is
\* true exactly for two equal values of one variant among String, Number,
\* Boolean and Null (false for Objects and Arrays, identical ones too), and
\* NotEqual is its negation; the four ordering comparisons fail with
\* TypeError on every pair that is not (Number, Number)
C16_Comparisons ==
    (/\ Evaluated
     /\ ev_in[1][1] \in {"Equal", "NotEqual", "LessThan", "LessEqual",
                         "GreaterThan", "GreaterEqual"}
     /\ IsOk(LeftVal)
     /\ IsOk(RightVal)) =>
        LET a == LeftVal[2]
            b == RightVal[2]
        IN  CASE ev_in[1][1] = "Equal" -> ev_out = Ok(VBoolean(SameValue(a, b)))
              [] ev_in[1][1] = "NotEqual" -> ev_out = Ok(VBoolean(~SameValue(a, b)))
              [] OTHER -> IF a[1] = "Number" /\ b[1] = "Number"
                          THEN IsOk(ev_out) /\ ev_out[2][1] = "Boolean"
                          ELSE IsErr(ev_out) /\ ev_out[2] = "TypeError"

C16_Witness ==
    /\ Evaluated
    /\ ev_in[1] = <<"Equal", Var("o"), Var("o")>>
    /\ ev_out = Ok(VBoolean(FALSE))

\* C17: And and Or evaluate the left operand, then the right one, always
\* both: a failure of the left is returned first, a failure of the right is
\* returned even when the left alone decides, and otherwise the result is
\* the Boolean of the operands' truthiness combined
C17_EagerConnectives ==
    (Evaluated /\ ev_in[1][1] \in {"And", "Or"}) =>
        IF IsErr(LeftVal) THEN ev_out = LeftVal
        ELSE IF IsErr(RightVal) THEN ev_out = RightVal
        ELSE ev_out = Ok(VBoolean(IF ev_in[1][1] = "And"
                                  THEN is_truthy(LeftVal[2]) /\ is_truthy(RightVal[2])
                                  ELSE is_truthy(LeftVal[2]) \/ is_truthy(RightVal[2])))

C17_Witness ==
    /\ Evaluated
    /\ ev_in[1] = <<"And", VBoolean(FALSE), Var("missing")>>
    /\ ev_out = Err("UnknownVariable", "missing")

IsAssignmentShaped(e) == e[1] \in {"Assignment", "FieldAssignment"}

\* the evaluation of e comes to an Assignment or FieldAssignment, at any
\* depth, before anything else fails
RECURSIVE ReachesAssignment(_, _)
ReachesAssignment(e, fs) ==
    CASE IsAssignmentShaped(e) -> TRUE
      [] e[1] \in {"Not", "FieldAccess"} -> ReachesAssignment(e[2], fs)
      [] e[1] \in BinaryOps ->
            \/ ReachesAssignment(e[2], fs)
            \/ IsOk(evaluate_expression(e[2], fs)) /\ ReachesAssignment(e[3], fs)
      [] OTHER -> FALSE

IsEvaluationError(r) == IsErr(r) /\ r[2] = "EvaluationError"

-----------------------------------------------------------------------------
(* Properties of the actions of a firing rule *)

\* the action about to run, and the value of its right-hand side against
\* the mapping as the actions before it have left it
ActionDue == pc = "actions" /\ j <= Len(sorted[i].then_actions)
DueAction == sorted[i].then_actions[j]
DueValue == evaluate_expression(DueAction[Len(DueAction)], facts)

C20_Step ==
    /\ (pc = "guard" /\ i <= Len(sorted)
        /\ evaluate_condition(sorted[i].when_condition, facts) = Ok(TRUE))
       => pc' = "actions" /\ j' = 1 /\ i' = i /\ sorted' = sorted /\ facts' = facts
    /\ (ActionDue /\ IsOk(DueValue) /\ DueAction[1] = "Assignment")
       => /\ pc' = "actions" /\ j' = j + 1 /\ i' = i /\ sorted' = sorted
          /\ DOMAIN facts' = DOMAIN facts \cup {DueAction[2]}
          /\ facts'[DueAction[2]].value = DueValue[2]
          /\ \A n \in DOMAIN facts \ {DueAction[2]} : facts'[n] = facts[n]
    /\ (ActionDue /\ IsOk(DueValue) /\ DueAction[1] = "FieldAssignment"
        /\ DueAction[2] \in DOMAIN facts /\ facts[DueAction[2]].value[1] = "Object")
       => LET obj == DueAction[2]
              field == DueAction[3]
              before == facts[obj].value[2]
          IN  /\ pc' = "actions" /\ j' = j + 1 /\ i' = i /\ sorted' = sorted
              /\ DOMAIN facts' = DOMAIN facts
              /\ \A n \in DOMAIN facts \ {obj} : facts'[n] = facts[n]
              /\ facts'[obj].name = facts[obj].name
              /\ facts'[obj].value[1] = "Object"
              /\ DOMAIN facts'[obj].value[2] = DOMAIN before \cup {field}
              /\ facts'[obj].value[2][field] = DueValue[2]
              /\ \A f \in DOMAIN before \ {field} : facts'[obj].value[2][f] = before[f]
              /\ evaluate_expression(Field(obj, field), facts') = Ok(DueValue[2])

\* C20: the actions of a firing rule run in the order listed, each against
\* the mapping as the ones before it left it.  Assignment(name, e) leaves
\* under name exactly the value of e, creating or replacing the fact, and
\* changes no other fact; FieldAssignment(obj, field, e) on an Object fact
\* leaves the value of e in that field, adding or replacing it, changes no
\* other field and no other fact, and reading obj.field then gives that value
C20_ActionsInOrder == [][C20_Step]_vars

\* RuleC has run both actions: Gear holds the Speed the first action wrote
C20_Witness ==
    /\ pc = "actions"
    /\ sorted[i].name = "c"
    /\ j = 3
    /\ facts0["car"].value = Car
    /\ facts["car"].value[2]["Speed"] = Num(60)
    /\ facts["car"].value[2]["Gear"] = Num(61)
    /\ facts["y"].value = Num(10)

-----------------------------------------------------------------------------
(* The engine and the evaluator side by side: a behaviour is one of Spec   *)
(* or one of SpecEval.                                                     *)

InitAll == Init \/ InitEval

NextAll ==
    \/ ev_in = NoInput /\ Next
    \/ ev_in # NoInput /\ NextEval

SpecAll == InitAll /\ [][NextAll]_vars

\* the expression names a fact the mapping does not hold
RECURSIVE NamesAbsentFact(_, _)
NamesAbsentFact(e, fs) ==
    CASE e[1] = "Variable" -> e[2] \notin DOMAIN fs
      [] e[1] \in {"Not", "FieldAccess"} -> NamesAbsentFact(e[2], fs)
      [] e[1] \in BinaryOps -> NamesAbsentFact(e[2], fs) \/ NamesAbsentFact(e[3], fs)
      [] OTHER -> FALSE

\* the evaluator on Variable and FieldAccess
C18_State ==
    /\ (ev_in # NoInput /\ Evaluated /\ ev_in[1][1] = "Variable") =>
            IF ev_in[1][2] \in DOMAIN ev_in[2]
            THEN ev_out = Ok(ev_in[2][ev_in[1][2]].value)
            ELSE ev_out = Err("UnknownVariable", ev_in[1][2])
    /\ (ev_in # NoInput /\ Evaluated /\ ev_in[1][1] = "FieldAccess" /\ IsOk(LeftVal)) =>
            LET o == LeftVal[2]
            IN  IF o[1] = "Object"
                THEN IF ev_in[1][3] \in DOMAIN o[2]
                     THEN ev_out = Ok(o[2][ev_in[1][3]])
                     ELSE IsEvaluationError(ev_out)
                ELSE IsErr(ev_out) /\ ev_out[2] = "TypeError"

\* execute at a guard that names an absent fact
C18_Step ==
    (pc = "guard" /\ i <= Len(sorted) /\ NamesAbsentFact(sorted[i].when_condition, facts))
       => /\ pc' = "idle"
          /\ ret'[1] = "execute"
          /\ IsErr(ret'[3])
          /\ facts' = facts

\* C18: Variable(name) gives the value of the fact under name, or
\* UnknownVariable when there is none; FieldAccess gives the field of an
\* Object, EvaluationError when the Object has no such field, TypeError when
\* the value is no Object; so execute, at a guard that names an absent fact,
\* returns an error and does not take the guard for false
C18_Lookup == [] C18_State /\ [][C18_Step]_vars

\* RuleC's guard on a mapping without a car
C18_Witness ==
    /\ ReturnedErr
    /\ ret[3] = Err("UnknownVariable", "car")
    /\ "x" \in DOMAIN facts
    /\ guards[Len(guards)][1] = "c"
    /\ rules_fired = <<>>

-----------------------------------------------------------------------------
(* Properties of a FieldAssignment that fails, and of the names of facts   *)

IsFieldAssignment == ev_in # NoInput /\ Acted /\ ev_in[1][1] = "FieldAssignment"
AssignedValue == evaluate_expression(ev_in[1][4], ev_in[2])

\* C21: FieldAssignment(obj, field, e) whose e evaluates fails with
\* UnknownVariable(obj) when the mapping holds no fact obj, and fails with an
\* error when the fact obj holds no Object; when e fails the action fails
\* with e's error; in all three cases the mapping is left exactly as it was
C21_FailedFieldAssignment ==
    IsFieldAssignment =>
        LET obj == ev_in[1][2]
            fs == ev_in[2]
        IN  /\ (IsOk(AssignedValue) /\ obj \notin DOMAIN fs) =>
                    ac_out = <<Err("UnknownVariable", obj), fs>>
            /\ (IsOk(AssignedValue) /\ obj \in DOMAIN fs /\ fs[obj].value[1] # "Object") =>
                    IsErr(ac_out[1]) /\ ac_out[2] = fs
            /\ IsErr(AssignedValue) => ac_out = <<AssignedValue, fs>>

\* a number for a field of the String fact s
C21_Witness ==
    /\ IsFieldAssignment
    /\ ev_in[1] = FieldAssign("s", "k", Num(6))
    /\ IsErr(ac_out[1])
    /\ ac_out[2] = EvalFacts

\* every fact is stored under its own name
NamesMatch(fs) == \A n \in DOMAIN fs : fs[n].name = n

C22_State == NamesMatch(facts0) => NamesMatch(facts)

C22_Step ==
    /\ (ActionDue /\ IsOk(DueValue) /\ DueAction[1] = "Assignment")
       => /\ DueAction[2] \in DOMAIN facts'
          /\ facts'[DueAction[2]].name = DueAction[2]
    /\ (ActionDue /\ DueAction[1] = "FieldAssignment")
       => /\ DOMAIN facts' = DOMAIN facts
          /\ \A n \in DOMAIN facts : facts'[n].name = facts[n].name

\* C22: when every fact is stored under its own name as execute begins, so
\* is every fact at each step of the call and when it has returned, with a
\* result or with an error: a fact that Assignment creates or replaces has
\* the assigned name as its key and as its name, and FieldAssignment changes
\* neither the keys of the mapping nor the name of any fact
C22_NamesKept == [] C22_State /\ [][C22_Step]_vars

\* RuleA has replaced y and RuleC has written two fields of the car
C22_Witness ==
    /\ ReturnedOk
    /\ NamesMatch(facts0)
    /\ {"y", "car"} \subseteq DOMAIN facts0
    /\ facts0["y"].value = Num(0)
    /\ facts["y"] = Fact_new("y", Num(10))
    /\ "Gear" \notin DOMAIN facts0["car"].value[2]
    /\ "Gear" \in DOMAIN facts["car"].value[2]
    /\ facts["car"].name = "car"

====
